---- MODULE Spec2Model ----
(***************************************************************************)
(* Model of autoload/lingrvim.py: the Observer thread that runs the        *)
(* session pump and its hook callbacks, the lock-protected render queue,   *)
(* the per-room message logs, and the rendering of the three vim buffers   *)
(* on the consumer (vim main) thread.                                      *)
(*                                                                         *)
(* Two threads are interleaved at statement granularity where the          *)
(* statements touch state the other thread touches.  The session object    *)
(* (lingr.Connection) is the environment: it populates its room map,       *)
(* then calls the connected hook once (Connection is built with            *)
(* auto-reconnect off), then delivers message / join / leave / error       *)
(* events until its pump returns or fails.                                 *)
(***************************************************************************)
EXTENDS Integers, Sequences, FiniteSets, TLC

(* ------------------------------ bounds -------------------------------- *)
\* events of a run that add to the state: message, join, leave and error
\* events of the session and get_archives calls of the user
MaxEvents == 2
\* longest archive batch the session returns
MaxBatch == 1

(* --------------------------- the environment -------------------------- *)
\* sender.rooms.keys(): the session's room ids in dict enumeration order
RoomOrder == <<"r1", "r2">>

RoomIds == {RoomOrder[k] : k \in 1..Len(RoomOrder)}

\* room.members.values(): the roster of a room in dict enumeration order
MemberOrder(r) == IF r = "r1" THEN <<"u1", "u2">> ELSE <<"u1">>

\* member.owner
IsOwner(r, u) == r = "r1" /\ u = "u1"

\* speaker ids of arriving messages
SpeakerIds == {"u1", "u2"}

\* message texts: sequences of characters, "\n" being the line break
Texts == {<<"a">>}

\* lingr.Message: the fields the program reads
Message(id, type, speaker, text) ==
    [id |-> id, type |-> type, speaker_id |-> speaker, nickname |-> speaker,
     text |-> text, timestamp |-> id]

\* the room backlogs of the session's initial snapshot
Backlogs ==
    { [r \in RoomIds |-> <<>>],
      [r \in RoomIds |-> IF r = "r1" THEN <<Message(100, "user", "u1", <<"a", "\n", "b">>)>>
                                     ELSE <<>>] }

\* every <<room, member>> pair of the session
Roster == UNION { {<<r, MemberOrder(r)[k]>> : k \in 1..Len(MemberOrder(r))} : r \in RoomIds }

\* the presence flags of the session's initial snapshot, as the set of
\* <<room, member>> pairs that are online
Rosters == {Roster}

(* ----------------------------- constants ------------------------------ *)
CONNECTED == 0
MESSAGE == 1
PRESENCE == 2

GET_ARCHIVES_MESSAGE == <<"archives", "[Read more from archives...]">>
ARCHIVES_DELIMITER == <<"delimiter", "--------------------">>
MESSAGE_HEADER(nickname, timestamp) == <<"header", nickname, timestamp>>
JOIN_MESSAGE(name) == <<"presence", name, "is now online">>
LEAVE_MESSAGE(name) == <<"presence", name, "is now offline">>
MEMBERS_STATUSLINE(n, total) == <<"lingr-members", n, total>>
MESSAGES_STATUSLINE(name) == <<"lingr-messages", name>>

\* the line a vim buffer keeps when all its lines are deleted
EmptyLine == <<"">>

VARIABLES
    rooms,            \* self.lingr.rooms: the session's room ids, in order
    online,           \* the <<room, member>> pairs whose presence flag is set
    backlog,          \* room.backlog of the initial snapshot
    is_alive,         \* self.lingr.is_alive
    destroy_calls,    \* history: calls of self.lingr.destroy_session() so far
    messages,         \* self.messages: room id -> list of messages
    current_room_id,  \* self.current_room_id
    last_speaker_id,  \* self.last_speaker_id
    render_queue,     \* self.render_queue
    queue_lock,       \* self.queue_lock: "free" or the thread holding it
    messages_buffer,  \* lines of the messages buffer
    messages_status,  \* statusline of the messages buffer
    rooms_buffer,     \* lines of the rooms buffer
    members_buffer,   \* lines of the members buffer
    members_status,   \* statusline of the members buffer
    o_pc,             \* position of the Observer thread
    o_loc,            \* locals of the Observer thread
    c_pc,             \* position of the consumer (vim main) thread
    c_loc,            \* locals of the consumer thread
    pushed,           \* history: every operation given to push_operation
    rendered,         \* history: every operation process_queue has rendered
    shown,            \* history: messages given to _show_message since the
                      \*          messages buffer was last cleared
    request,          \* history: the arguments of the last lingr.get_archives
    observer_commands, \* history: vim commands issued on the Observer thread
    nevents           \* events of the session and get_archives calls so far

vars == <<rooms, online, backlog, messages, current_room_id, last_speaker_id,
          render_queue, queue_lock, messages_buffer, messages_status,
          rooms_buffer, members_buffer, members_status, o_pc, o_loc, c_pc,
          c_loc, pushed, rendered, shown, request, nevents, is_alive,
          destroy_calls, observer_commands>>

views == <<messages_buffer, messages_status, rooms_buffer, members_buffer,
           members_status>>

session == <<rooms, online, backlog, is_alive, destroy_calls>>

NoLocals == [room |-> "", i |-> 0, j |-> 0, op |-> <<>>, err |-> ""]

\* locals of the consumer thread; log0 and obs0 are history (the log and the
\* Observer's position when get_archives was entered)
CNoLocals == [i |-> 0, ret |-> "", onlines |-> <<>>, mroom |-> "",
              room |-> "", archives |-> <<>>, tmp |-> <<>>,
              log0 |-> <<>>, obs0 |-> <<>>, err |-> ""]

Init ==
    /\ rooms = <<>>
    /\ online = {}
    /\ backlog = [r \in {} |-> <<>>]
    /\ messages = [r \in {} |-> <<>>]
    /\ current_room_id = ""
    /\ last_speaker_id = ""
    /\ render_queue = <<>>
    /\ queue_lock = "free"
    /\ messages_buffer = <<EmptyLine>>
    /\ messages_status = <<>>
    /\ rooms_buffer = <<EmptyLine>>
    /\ members_buffer = <<EmptyLine>>
    /\ members_status = <<>>
    /\ o_pc = "init"
    /\ o_loc = NoLocals
    /\ c_pc = "idle"
    /\ c_loc = CNoLocals
    /\ pushed = <<>>
    /\ rendered = <<>>
    /\ shown = <<>>
    /\ request = <<>>
    /\ nevents = 0
    /\ is_alive = FALSE
    /\ destroy_calls = 0
    /\ observer_commands = <<>>

(* ------------------------- python list helpers ------------------------ *)
\* dict item assignment d[k] = v
DictSet(d, k, v) == [x \in DOMAIN d \cup {k} |-> IF x = k THEN v ELSE d[x]]

\* list.index(x): 0-based position of the first x, or -1 for ValueError
Index(seq, x) ==
    IF \E k \in 1..Len(seq) : seq[k] = x
    THEN (CHOOSE k \in 1..Len(seq) : seq[k] = x /\ \A h \in 1..(k - 1) : seq[h] # x) - 1
    ELSE -1

\* filter(f, list) over the roster of room r, by the presence flags in on
RECURSIVE Filter(_, _, _, _)
Filter(r, members, on, want) ==
    IF members = <<>> THEN <<>>
    ELSE (IF (<<r, Head(members)>> \in on) = want THEN <<Head(members)>> ELSE <<>>)
         \o Filter(r, Tail(members), on, want)

\* str.split("\n") on a text given as a sequence of characters
RECURSIVE Split(_)
Split(text) ==
    IF \A k \in 1..Len(text) : text[k] # "\n" THEN <<text>>
    ELSE LET k == CHOOSE n \in 1..Len(text) :
                      text[n] = "\n" /\ \A h \in 1..(n - 1) : text[h] # "\n"
         IN <<SubSeq(text, 1, k - 1)>> \o Split(SubSeq(text, k + 1, Len(text)))

(* ----------------------------- the queue ------------------------------ *)
RenderOperation(type, params) == [type |-> type, params |-> params]

\* the params dict of an operation, with a value for every key the program uses
NoMessage == Message(0, "none", "", <<>>)

Params(message, is_join, member) ==
    [message |-> message, is_join |-> is_join, member |-> member]

NoParams == Params(NoMessage, FALSE, "")

\* push_operation: acquire the lock, append, release.  The three statements
\* are one step: nothing else is done while the Observer holds the lock, and
\* the step is enabled only when the lock is free.
push_operation(operation) ==
    /\ queue_lock = "free"
    /\ render_queue' = Append(render_queue, operation)
    /\ pushed' = Append(pushed, operation)
    /\ UNCHANGED queue_lock

(* --------------------------- Observer thread -------------------------- *)
\* LingrObserver.run calls lingr.start(): the session is created (and is
\* alive from then on), fetches its rooms and calls the connected hook
SessionStart ==
    /\ o_pc = "init"
    /\ rooms' = RoomOrder
    /\ online' \in Rosters
    /\ backlog' \in Backlogs
    /\ is_alive' = TRUE
    /\ UNCHANGED destroy_calls
    /\ o_pc' = "ch_room"
    /\ o_loc' = [NoLocals EXCEPT !.i = 1]
    /\ UNCHANGED observer_commands
    /\ UNCHANGED <<messages, current_room_id, last_speaker_id, render_queue,
                   queue_lock, views, c_pc, c_loc, pushed, rendered, shown,
                   request, nevents>>

\* connected_hook, loop head: self.messages[id] = []
ConnectedRoom ==
    /\ o_pc = "ch_room"
    /\ IF o_loc.i <= Len(rooms)
       THEN /\ messages' = DictSet(messages, rooms[o_loc.i], <<>>)
            /\ o_pc' = "ch_backlog"
            /\ o_loc' = [o_loc EXCEPT !.j = 1]
       ELSE /\ o_pc' = "ch_current"
            /\ UNCHANGED <<messages, o_loc>>
    /\ UNCHANGED observer_commands
    /\ UNCHANGED <<session, current_room_id, last_speaker_id, render_queue,
                   queue_lock, views, c_pc, c_loc, pushed, rendered, shown,
                   request, nevents>>

\* connected_hook, inner loop: self.messages[id].append(m) for m in room.backlog
ConnectedBacklog ==
    /\ o_pc = "ch_backlog"
    /\ LET id == rooms[o_loc.i] IN
       IF o_loc.j <= Len(backlog[id])
       THEN /\ messages' = [messages EXCEPT ![id] = Append(@, backlog[id][o_loc.j])]
            /\ o_loc' = [o_loc EXCEPT !.j = @ + 1]
            /\ UNCHANGED o_pc
       ELSE /\ o_loc' = [o_loc EXCEPT !.i = @ + 1, !.j = 0]
            /\ o_pc' = "ch_room"
            /\ UNCHANGED messages
    /\ UNCHANGED observer_commands
    /\ UNCHANGED <<session, current_room_id, last_speaker_id, render_queue,
                   queue_lock, views, c_pc, c_loc, pushed, rendered, shown,
                   request, nevents>>

\* connected_hook: self.current_room_id = sender.rooms.keys()[0]
ConnectedCurrent ==
    /\ o_pc = "ch_current"
    /\ current_room_id' = rooms[1]
    /\ o_pc' = "ch_push"
    /\ o_loc' = NoLocals
    /\ UNCHANGED observer_commands
    /\ UNCHANGED <<session, messages, last_speaker_id, render_queue,
                   queue_lock, views, c_pc, c_loc, pushed, rendered, shown,
                   request, nevents>>

\* connected_hook: self.push_operation(RenderOperation(CONNECTED))
ConnectedPush ==
    /\ o_pc = "ch_push"
    /\ push_operation(RenderOperation(CONNECTED, NoParams))
    /\ o_pc' = "ch_vim"
    /\ UNCHANGED observer_commands
    /\ UNCHANGED <<session, messages, current_room_id, last_speaker_id,
                   views, o_loc, c_pc, c_loc, rendered, shown, request,
                   nevents>>

\* connected_hook, last statements: vim.command('doautocmd CursorHold') and
\* vim.command("echo 'Launching Lingr-Vim... done!'")
ConnectedCommands ==
    /\ o_pc = "ch_vim"
    /\ observer_commands' = observer_commands \o
           << <<"doautocmd", "CursorHold">>,
              <<"echo", "Launching Lingr-Vim... done!">> >>
    /\ o_pc' = "run"
    /\ UNCHANGED <<session, messages, current_room_id, last_speaker_id,
                   render_queue, queue_lock, views, o_loc, c_pc, c_loc,
                   pushed, rendered, shown, request, nevents>>

\* message_hook, first statement: self.messages[room.id].append(message)
message_hook_append(room, message) ==
    /\ messages' = [messages EXCEPT ![room] = Append(@, message)]

\* the rooms the session's message events may name: its rooms and a room it
\* never listed
EventRooms == RoomIds \cup {"rx"}

\* where the Observer thread is once it has ended: the pump returned, the
\* pump's APIError was handled, or an exception nobody catches ended the thread
Terminal == {"done", "failed", "crashed"}

\* what the session's pump does with an exception that a hook raises: it goes
\* on with the next event, or the exception leaves lingr.start() and, not
\* being an APIError, ends the thread (the pump is not part of lingrvim.py)
HookErrorOutcomes == {"run", "crashed"}

\* the session delivers a message event and message_hook stores the message;
\* self.messages[room.id] raises KeyError for a room that has no log
MessageEvent(room, speaker, text) ==
    /\ o_pc = "run"
    /\ nevents < MaxEvents
    /\ nevents' = nevents + 1
    /\ IF room \in DOMAIN messages
       THEN /\ LET message == Message(nevents + 1, "user", speaker, text) IN
               /\ message_hook_append(room, message)
               /\ o_loc' = [NoLocals EXCEPT !.room = room,
                              !.op = RenderOperation(MESSAGE, Params(message, FALSE, ""))]
            /\ o_pc' = "hook_check"
       ELSE /\ o_pc' \in HookErrorOutcomes
            /\ UNCHANGED <<messages, o_loc>>
    /\ UNCHANGED observer_commands
    /\ UNCHANGED <<session, current_room_id, last_speaker_id, render_queue,
                   queue_lock, views, c_pc, c_loc, pushed, rendered, shown,
                   request>>

\* the session flips the member's presence flag in place (the lingr module
\* is not part of lingrvim.py)
SetPresence(room, member, is_join) ==
    IF is_join THEN online \cup {<<room, member>>}
               ELSE online \ {<<room, member>>}

\* the session delivers a join or leave event: the flag is flipped and
\* join_hook / leave_hook is called
PresenceEvent(room, member, is_join) ==
    /\ o_pc = "run"
    /\ nevents < MaxEvents
    /\ online' = SetPresence(room, member, is_join)
    /\ nevents' = nevents + 1
    /\ o_loc' = [NoLocals EXCEPT !.room = room,
                   !.op = RenderOperation(PRESENCE,
                              Params(NoMessage, is_join, member))]
    /\ o_pc' = "hook_check"
    /\ UNCHANGED observer_commands
    /\ UNCHANGED <<rooms, backlog, is_alive, destroy_calls, messages,
                   current_room_id, last_speaker_id,
                   render_queue, queue_lock, views, c_pc, c_loc, pushed,
                   rendered, shown, request>>

\* a hook that enqueues whatever the room
HookTestAlways(room) == TRUE

\* the hooks' test: if self.current_room_id == room.id
HookTest(room) == current_room_id = room

\* the hooks evaluate their test
HookCheck ==
    /\ o_pc = "hook_check"
    /\ IF HookTest(o_loc.room)
       THEN o_pc' = "hook_push" /\ UNCHANGED o_loc
       ELSE o_pc' = "run" /\ o_loc' = NoLocals
    /\ UNCHANGED observer_commands
    /\ UNCHANGED <<session, messages, current_room_id, last_speaker_id,
                   render_queue, queue_lock, views, c_pc, c_loc, pushed,
                   rendered, shown, request, nevents>>

\* the hooks' self.push_operation(RenderOperation(...))
HookPush ==
    /\ o_pc = "hook_push"
    /\ push_operation(o_loc.op)
    /\ o_pc' = "run"
    /\ o_loc' = NoLocals
    /\ UNCHANGED observer_commands
    /\ UNCHANGED <<session, messages, current_room_id, last_speaker_id,
                   views, c_pc, c_loc, rendered, shown, request, nevents>>

\* the errors the session reports or fails with
Errors == {"e1"}

\* echo_error: the vim command that shows message as an error
echo_error(message) == <<"echoerr", message>>

\* the session calls error_hook, which forwards the error to echo_error;
\* the pump goes on
ErrorEvent(error) ==
    /\ o_pc = "run"
    /\ nevents < MaxEvents
    /\ nevents' = nevents + 1
    /\ observer_commands' = Append(observer_commands, echo_error(error))
    /\ UNCHANGED <<session, messages, current_room_id, last_speaker_id,
                   render_queue, queue_lock, views, o_pc, o_loc, c_pc, c_loc,
                   pushed, rendered, shown, request>>

\* self.lingr.start() raises lingr.APIError, at the start of the session or
\* from the pump
PumpRaise(error) ==
    /\ o_pc \in {"init", "run"}
    /\ o_pc' = "except"
    /\ o_loc' = [NoLocals EXCEPT !.err = error]
    /\ UNCHANGED <<session, messages, current_room_id, last_speaker_id,
                   render_queue, queue_lock, views, c_pc, c_loc, pushed,
                   rendered, shown, request, nevents, observer_commands>>

\* a handler that swallows the error
RunExceptSilent(error) == <<>>

\* the vim commands of the except clause of LingrObserver.run
RunExceptCommands(error) == <<echo_error(error)>>

\* LingrObserver.run: except lingr.APIError as e: echo_error(e.detail); the
\* thread ends
RunExcept ==
    /\ o_pc = "except"
    /\ observer_commands' = observer_commands \o RunExceptCommands(o_loc.err)
    /\ o_pc' = "failed"
    /\ o_loc' = NoLocals
    /\ UNCHANGED <<session, messages, current_room_id, last_speaker_id,
                   render_queue, queue_lock, views, c_pc, c_loc, pushed,
                   rendered, shown, request, nevents>>

\* self.lingr.start() returns: LingrObserver.run ends without a word
PumpReturn ==
    /\ o_pc = "run"
    /\ o_pc' = "done"
    /\ UNCHANGED <<session, messages, current_room_id, last_speaker_id,
                   render_queue, queue_lock, views, o_loc, c_pc, c_loc, pushed,
                   rendered, shown, request, nevents, observer_commands>>

Observer ==
    \/ SessionStart
    \/ ConnectedRoom
    \/ ConnectedBacklog
    \/ ConnectedCurrent
    \/ ConnectedPush
    \/ ConnectedCommands
    \/ /\ o_pc = "run"
       /\ \E room \in EventRooms, speaker \in SpeakerIds, text \in Texts :
             MessageEvent(room, speaker, text)
    \/ /\ o_pc = "run"
       /\ \E pair \in Roster, is_join \in BOOLEAN :
             PresenceEvent(pair[1], pair[2], is_join)
    \/ HookCheck
    \/ HookPush
    \/ /\ o_pc = "run"
       /\ \E error \in Errors : ErrorEvent(error)
    \/ /\ o_pc \in {"init", "run"}
       /\ \E error \in Errors : PumpRaise(error)
    \/ RunExcept
    \/ PumpReturn

(* ------------------------------ rendering ----------------------------- *)
\* the lines appended for the segments of a split text
RECURSIVE BodyLines(_)
BodyLines(segments) ==
    IF segments = <<>> THEN <<>>
    ELSE <<<<"body", Head(segments)>>>> \o BodyLines(Tail(segments))

\* _show_message that keeps the last speaker across a boundary message
ShowMessageKeepingSpeaker(buf, last, message) ==
    IF message.type = "dummy"
    THEN [buffer |-> Append(buf, ARCHIVES_DELIMITER), last |-> last]
    ELSE [buffer |->
              (IF last # message.speaker_id
               THEN Append(buf, MESSAGE_HEADER(message.nickname, message.timestamp))
               ELSE buf) \o BodyLines(Split(message.text)),
          last |-> message.speaker_id]

\* _show_message: the messages buffer and last_speaker_id after showing message
\* on the buffer buf with last speaker last
_show_message(buf, last, message) ==
    IF message.type = "dummy"
    THEN [buffer |-> Append(buf, ARCHIVES_DELIMITER), last |-> ""]
    ELSE [buffer |->
              (IF last # message.speaker_id
               THEN Append(buf, MESSAGE_HEADER(message.nickname, message.timestamp))
               ELSE buf) \o BodyLines(Split(message.text)),
          last |-> message.speaker_id]

\* the loop of _render_messages: _show_message for every message of log
RECURSIVE ShowAll(_, _, _)
ShowAll(buf, last, log) ==
    IF log = <<>> THEN [buffer |-> buf, last |-> last]
    ELSE LET r == _show_message(buf, last, Head(log))
         IN ShowAll(r.buffer, r.last, Tail(log))

\* _render_messages that replays the log without resetting the last speaker
RenderKeepingSpeaker(last) == last

\* the value _render_messages gives last_speaker_id before it replays the log
RenderStartSpeaker(last) == ""

\* _render_messages up to the loop: the buffer is cleared, its first line set,
\* last_speaker_id reset; then the log of room is replayed.  ok is FALSE when
\* self.messages[room] raises KeyError, which ends the render after the reset.
_render_messages(room, last) ==
    IF room \in DOMAIN messages
    THEN LET r == ShowAll(<<GET_ARCHIVES_MESSAGE>>, RenderStartSpeaker(last),
                          messages[room])
         IN [ok |-> TRUE, buffer |-> r.buffer, last |-> r.last,
             shown |-> messages[room], status |-> MESSAGES_STATUSLINE(room)]
    ELSE [ok |-> FALSE, buffer |-> <<GET_ARCHIVES_MESSAGE>>,
          last |-> RenderStartSpeaker(last), shown |-> <<>>,
          status |-> messages_status]

\* del buffer[0] on a vim buffer: the last line of a buffer cannot be removed
DelFirst(buf) == IF Len(buf) > 1 THEN Tail(buf) ELSE <<EmptyLine>>

\* _render_rooms: one line per room, the current one marked
_render_rooms(current) ==
    DelFirst(<<EmptyLine>> \o
             [k \in 1..Len(rooms) |->
                 <<rooms[k], IF rooms[k] = current THEN " *" ELSE "">>])

\* the lines _render_members appends for the members of a partition
MemberLines(room, members, sign) ==
    [k \in 1..Len(members) |->
        <<members[k], IF IsOwner(room, members[k]) THEN "(owner)" ELSE "", sign>>]

\* _render_members that appends the offline members first
MemberListOfflinesFirst(room, onlines, offlines) ==
    DelFirst(<<EmptyLine>> \o MemberLines(room, offlines, " -")
                           \o MemberLines(room, onlines, " +"))

\* _render_members after both filters: onlines first, then offlines
MemberList(room, onlines, offlines) ==
    DelFirst(<<EmptyLine>> \o MemberLines(room, onlines, " +")
                           \o MemberLines(room, offlines, " -"))

\* the counts of the members statusline
MemberStatus(room, onlines) ==
    MEMBERS_STATUSLINE(Len(onlines), Len(MemberOrder(room)))

(* --------------------------- consumer thread -------------------------- *)
\* arguments the user gives to the entry points
SelectableIds == RoomIds \cup {"rx"}
Lnums == 0..3
Offsets == {-1, 1}

\* an exception leaves the entry point the consumer is in; err names the
\* exception and the line of lingrvim.py that raises it
raise(err) ==
    /\ c_pc' = "raised"
    /\ c_loc' = [CNoLocals EXCEPT !.err = err]

\* _render_members, first half: the buffer is cleared, the roster is read and
\* filtered for the members that are online; control continues at ret after
\* the second half.  loc is the caller's locals.
render_members_begin(room, loc, ret) ==
    /\ members_buffer' = <<EmptyLine>>
    /\ c_loc' = [loc EXCEPT !.onlines = Filter(room, MemberOrder(room), online, TRUE),
                            !.mroom = room, !.ret = ret]
    /\ c_pc' = "rm_offlines"
    /\ UNCHANGED members_status

\* render_all: render_messages, render_rooms and the first half of
\* render_members, for the room that is current.  A KeyError of
\* self.messages[room] ends the call after _render_messages has reset the
\* buffer and the last speaker; the exception leaves the entry point (with
\* whatever lock the consumer holds still held).
render_all(room, loc, ret) ==
    LET rm == _render_messages(room, last_speaker_id) IN
    /\ messages_buffer' = rm.buffer
    /\ last_speaker_id' = rm.last
    /\ shown' = rm.shown
    /\ messages_status' = rm.status
    /\ IF rm.ok
       THEN /\ rooms_buffer' = _render_rooms(room)
            /\ render_members_begin(room, loc, ret)
       ELSE /\ raise("KeyError:180")
            /\ UNCHANGED <<rooms_buffer, members_buffer, members_status>>

\* _render_members, second half: the roster is filtered for the members that
\* are offline, the lines and the statusline are written
RenderMembersEnd ==
    /\ c_pc = "rm_offlines"
    /\ LET room == c_loc.mroom
           offlines == Filter(room, MemberOrder(room), online, FALSE)
       IN /\ members_buffer' = MemberList(room, c_loc.onlines, offlines)
          /\ members_status' = MemberStatus(room, c_loc.onlines)
    /\ c_pc' = c_loc.ret
    /\ c_loc' = IF c_loc.ret = "idle" THEN CNoLocals
                ELSE [c_loc EXCEPT !.onlines = <<>>, !.mroom = "", !.ret = ""]
    /\ UNCHANGED observer_commands
    /\ UNCHANGED <<session, messages, current_room_id, last_speaker_id,
                   render_queue, queue_lock, messages_buffer, messages_status,
                   rooms_buffer, o_pc, o_loc, pushed, rendered, shown,
                   request, nevents>>

\* process_queue on an empty queue returns at once
ProcessQueueEmpty ==
    /\ c_pc = "idle"
    /\ Len(render_queue) = 0
    /\ UNCHANGED observer_commands
    /\ UNCHANGED <<session, messages, current_room_id, last_speaker_id,
                   render_queue, queue_lock, views, o_pc, o_loc, c_pc, c_loc,
                   pushed, rendered, shown, request, nevents>>

\* process_queue without the acquire: the lock stays free during the loop
AcquireSkipped == "free"

\* what process_queue does with the lock before its loop
AcquireForLoop == "consumer"

\* process_queue on a non-empty queue: self.queue_lock.acquire()
ProcessQueueBegin ==
    /\ c_pc = "idle"
    /\ Len(render_queue) # 0
    /\ queue_lock = "free"
    /\ queue_lock' = AcquireForLoop
    /\ c_pc' = "pq_loop"
    /\ c_loc' = [CNoLocals EXCEPT !.i = 1]
    /\ UNCHANGED observer_commands
    /\ UNCHANGED <<session, messages, current_room_id, last_speaker_id,
                   render_queue, views, o_pc, o_loc, pushed, rendered, shown,
                   request, nevents>>

\* _show_presence_message: the banner line of a join or leave
_show_presence_message(buf, is_join, member) ==
    Append(buf, IF is_join THEN JOIN_MESSAGE(member) ELSE LEAVE_MESSAGE(member))

\* one iteration of the loop of process_queue
ProcessQueueStep ==
    /\ c_pc = "pq_loop"
    /\ c_loc.i <= Len(render_queue)
    /\ LET op == render_queue[c_loc.i]
           next == [c_loc EXCEPT !.i = @ + 1]
       IN /\ rendered' = Append(rendered, op)
          /\ CASE op.type = CONNECTED ->
                    render_all(current_room_id, next, "pq_loop")
               [] op.type = MESSAGE ->
                    /\ LET r == _show_message(messages_buffer, last_speaker_id,
                                              op.params.message) IN
                       /\ messages_buffer' = r.buffer
                       /\ last_speaker_id' = r.last
                    /\ shown' = Append(shown, op.params.message)
                    /\ c_loc' = next
                    /\ UNCHANGED <<messages_status, rooms_buffer, members_buffer,
                                   members_status, c_pc>>
               [] op.type = PRESENCE ->
                    /\ messages_buffer' = _show_presence_message(messages_buffer,
                          op.params.is_join, op.params.member)
                    /\ render_members_begin(current_room_id, next, "pq_loop")
                    /\ UNCHANGED <<last_speaker_id, shown, messages_status,
                                   rooms_buffer>>
    /\ UNCHANGED observer_commands
    /\ UNCHANGED <<session, messages, current_room_id, render_queue,
                   queue_lock, o_pc, o_loc, pushed, request, nevents>>

\* the loop of process_queue has gone through the queue
ProcessQueueExit ==
    /\ c_pc = "pq_loop"
    /\ c_loc.i > Len(render_queue)
    /\ c_pc' = "pq_reset"
    /\ UNCHANGED observer_commands
    /\ UNCHANGED <<session, messages, current_room_id, last_speaker_id,
                   render_queue, queue_lock, views, o_pc, o_loc, c_loc,
                   pushed, rendered, shown, request, nevents>>

\* the end of process_queue: self.render_queue = [] and release of the lock
ProcessQueueEnd ==
    /\ c_pc = "pq_reset"
    /\ render_queue' = <<>>
    /\ queue_lock' = "free"
    /\ c_pc' = "idle"
    /\ c_loc' = CNoLocals
    /\ UNCHANGED observer_commands
    /\ UNCHANGED <<session, messages, current_room_id, last_speaker_id, views,
                   o_pc, o_loc, pushed, rendered, shown, request, nevents>>

\* the test of select_room
SelectRoomGuard(room_id) ==
    /\ \E k \in 1..Len(rooms) : rooms[k] = room_id
    /\ current_room_id # room_id

\* select_room: a no-op unless room_id is a room and not the current one
select_room(room_id) ==
    IF SelectRoomGuard(room_id)
    THEN /\ current_room_id' = room_id
         /\ render_all(room_id, CNoLocals, "idle")
    ELSE UNCHANGED <<current_room_id, last_speaker_id, shown, views, c_pc, c_loc>>

SelectRoom(room_id) ==
    /\ c_pc = "idle"
    /\ select_room(room_id)
    /\ UNCHANGED observer_commands
    /\ UNCHANGED <<session, messages, render_queue, queue_lock, o_pc, o_loc,
                   pushed, rendered, request, nevents>>

\* the exception has reached the host: the entry point has ended
Raised ==
    /\ c_pc = "raised"
    /\ c_pc' = "idle"
    /\ c_loc' = CNoLocals
    /\ UNCHANGED <<session, messages, current_room_id, last_speaker_id,
                   render_queue, queue_lock, views, o_pc, o_loc, pushed,
                   rendered, shown, request, nevents, observer_commands>>

\* get_room_id_by_lnum: self.lingr.rooms.keys()[lnum - 1], "" for IndexError
get_room_id_by_lnum(lnum) ==
    LET n == Len(rooms)
        k == lnum - 1
    IN IF k >= 0 /\ k < n THEN rooms[k + 1]
       ELSE IF k < 0 /\ k >= -n THEN rooms[k + n + 1]
       ELSE ""

SelectRoomByLnum(lnum) ==
    /\ c_pc = "idle"
    /\ IF get_room_id_by_lnum(lnum) # ""
       THEN select_room(get_room_id_by_lnum(lnum))
       ELSE /\ raise("IndexError:131")
            /\ UNCHANGED <<current_room_id, last_speaker_id, shown, views>>
    /\ UNCHANGED observer_commands
    /\ UNCHANGED <<session, messages, render_queue, queue_lock, o_pc, o_loc,
                   pushed, rendered, request, nevents>>

\* select_room_by_offset: rooms.index raises ValueError when the current room
\* id is not a room
SelectRoomByOffset(offset) ==
    /\ c_pc = "idle"
    /\ IF Index(rooms, current_room_id) >= 0
       THEN select_room(rooms[((Index(rooms, current_room_id) + offset) % Len(rooms)) + 1])
       ELSE /\ raise("ValueError:138")
            /\ UNCHANGED <<current_room_id, last_speaker_id, shown, views>>
    /\ UNCHANGED observer_commands
    /\ UNCHANGED <<session, messages, render_queue, queue_lock, o_pc, o_loc,
                   pushed, rendered, request, nevents>>

\* _dummy_message: the boundary entry between archives and known messages
_dummy_message ==
    [id |-> -1, type |-> "dummy", speaker_id |-> "-1", nickname |-> "-",
     text |-> <<"-">>, timestamp |-> 0]

\* the batches lingr.get_archives may return: up to MaxBatch messages, older
\* than the log, of any speakers
RECURSIVE Batches(_, _)
Batches(n, base) ==
    IF n = 0 THEN {<<>>}
    ELSE LET shorter == Batches(n - 1, base)
         IN shorter \cup
            {Append(b, Message(base + Len(b) + 1, "user", sp, <<"a">>)) :
                 b \in {x \in shorter : Len(x) = n - 1}, sp \in SpeakerIds}

\* the observer's position, to tell whether it has taken a step
ObserverAt == <<o_pc, o_loc, nevents>>

\* get_archives when self.messages[self.current_room_id] raises KeyError or
\* messages[0] raises IndexError: the call ends there
GetArchivesRaise ==
    /\ c_pc = "idle"
    /\ IF current_room_id \in DOMAIN messages
       THEN messages[current_room_id] = <<>> /\ raise("IndexError:156")
       ELSE raise("KeyError:154")
    /\ UNCHANGED <<session, messages, current_room_id, last_speaker_id,
                   render_queue, queue_lock, views, o_pc, o_loc, pushed,
                   rendered, shown, request, nevents, observer_commands>>

\* the anchor of the request: the id of the oldest message of the log
Anchor(log) == log[1].id

\* get_archives: messages = self.messages[self.current_room_id] and the call
\* of self.lingr.get_archives(self.current_room_id, messages[0].id)
GetArchivesBegin ==
    /\ c_pc = "idle"
    /\ nevents < MaxEvents
    /\ current_room_id \in DOMAIN messages
    /\ messages[current_room_id] # <<>>
    /\ request' = <<current_room_id, Anchor(messages[current_room_id])>>
    /\ nevents' = nevents + 1
    /\ c_loc' = [CNoLocals EXCEPT !.room = current_room_id,
                                  !.log0 = messages[current_room_id],
                                  !.obs0 = <<o_pc, o_loc, nevents + 1>>]
    /\ c_pc' = "ga_wait"
    /\ UNCHANGED observer_commands
    /\ UNCHANGED <<session, messages, current_room_id, last_speaker_id,
                   render_queue, queue_lock, views, o_pc, o_loc, pushed,
                   rendered, shown>>

\* get_archives that appends no boundary entry after the archives
ArchivesWithoutBoundary(archives, log) == archives \o log

\* the new log get_archives builds: archives, the boundary, then the list
\* the local name messages refers to
ArchivesPlus(archives, log) == archives \o <<_dummy_message>> \o log

\* get_archives: the session answers with batch; archives is built and
\* archives + messages is evaluated.  The local name messages is the list
\* object that self.messages still holds for the room, so it has every
\* message appended to that room since.
GetArchivesConcat(batch) ==
    /\ c_pc = "ga_wait"
    /\ c_loc' = [c_loc EXCEPT !.archives = batch,
                              !.tmp = ArchivesPlus(batch, messages[c_loc.room])]
    /\ c_pc' = "ga_store"
    /\ UNCHANGED observer_commands
    /\ UNCHANGED <<session, messages, current_room_id, last_speaker_id,
                   render_queue, queue_lock, views, o_pc, o_loc, pushed,
                   rendered, shown, request, nevents>>

\* get_archives: the store self.messages[self.current_room_id] = <the sum>
GetArchivesStore ==
    /\ c_pc = "ga_store"
    /\ messages' = DictSet(messages, current_room_id, c_loc.tmp)
    /\ c_pc' = "ga_render"
    /\ UNCHANGED observer_commands
    /\ UNCHANGED <<session, current_room_id, last_speaker_id, render_queue,
                   queue_lock, views, o_pc, o_loc, c_loc, pushed, rendered,
                   shown, request, nevents>>

\* get_archives: self.render_messages()
GetArchivesRender ==
    /\ c_pc = "ga_render"
    /\ LET rm == _render_messages(current_room_id, last_speaker_id) IN
       /\ messages_buffer' = rm.buffer
       /\ last_speaker_id' = rm.last
       /\ shown' = rm.shown
       /\ messages_status' = rm.status
    /\ c_pc' = "idle"
    /\ c_loc' = CNoLocals
    /\ UNCHANGED observer_commands
    /\ UNCHANGED <<session, messages, current_room_id, render_queue,
                   queue_lock, rooms_buffer, members_buffer, members_status,
                   o_pc, o_loc, pushed, rendered, request, nevents>>

\* the session's destroy_session: the session is closed and is no longer
\* alive (the lingr module is not part of lingrvim.py)
destroy_session ==
    /\ is_alive' = FALSE
    /\ destroy_calls' = destroy_calls + 1

\* a destroy that closes the session whatever its state
DestroyUnguarded == TRUE

\* the test of destroy: if self.lingr.is_alive
DestroyGuard == is_alive

\* destroy (also run by __del__)
Destroy ==
    /\ c_pc = "idle"
    /\ IF DestroyGuard
       THEN destroy_session
       ELSE UNCHANGED <<is_alive, destroy_calls>>
    /\ UNCHANGED <<rooms, online, backlog, messages, current_room_id,
                   last_speaker_id, render_queue, queue_lock, views, o_pc,
                   o_loc, c_pc, c_loc, pushed, rendered, shown, request,
                   nevents, observer_commands>>

\* the poll cycle of the host: process_queue and the renders it starts
Poll ==
    \/ ProcessQueueEmpty
    \/ ProcessQueueBegin
    \/ ProcessQueueStep
    \/ ProcessQueueExit
    \/ ProcessQueueEnd
    \/ RenderMembersEnd

\* the user's actions
User ==
    \/ /\ c_pc = "idle"
       /\ \E room_id \in SelectableIds : SelectRoom(room_id)
    \/ /\ c_pc = "idle"
       /\ \E lnum \in Lnums : SelectRoomByLnum(lnum)
    \/ /\ c_pc = "idle"
       /\ \E offset \in Offsets : SelectRoomByOffset(offset)
    \/ GetArchivesRaise
    \/ GetArchivesBegin
    \/ /\ c_pc = "ga_wait"
       /\ \E batch \in Batches(MaxBatch, 1000 * nevents) : GetArchivesConcat(batch)
    \/ GetArchivesStore
    \/ GetArchivesRender
    \/ Raised
    \/ Destroy

Next == Observer \/ Poll \/ User

Spec == Init /\ [][Next]_vars

\* a render step of process_queue fails: a vim call of the step (a buffer
\* that was wiped, a command vim rejects) raises vim.error before the step
\* has changed anything, and the exception leaves process_queue from inside
\* the loop, past the reset and the release of the lock
RenderFails ==
    /\ c_pc = "pq_loop"
    /\ c_loc.i <= Len(render_queue)
    /\ raise("vim.error")
    /\ UNCHANGED <<session, messages, current_room_id, last_speaker_id,
                   render_queue, queue_lock, views, o_pc, o_loc, pushed,
                   rendered, shown, request, nevents, observer_commands>>

\* the program with a host whose vim calls may fail
NextFail == Next \/ RenderFails

SpecFail == Init /\ [][NextFail]_vars

\* the host only polls: no user action is taken
NextPoll == Observer \/ Poll

SpecPoll == Init /\ [][NextPoll]_vars

(* ============================ properties ============================== *)

\* whether the consumer is inside process_queue
InProcessQueue ==
    \/ c_pc \in {"pq_loop", "pq_reset"}
    \/ c_pc = "rm_offlines" /\ c_loc.ret = "pq_loop"

\* the queued operations the consumer has not rendered yet
Unrendered ==
    IF InProcessQueue
    THEN SubSeq(render_queue, c_loc.i, Len(render_queue))
    ELSE render_queue

\* C1: whatever the interleaving of push_operation with process_queue, the
\* operations rendered so far followed by the queued operations not yet
\* rendered are the pushed operations in push order: nothing is rendered
\* twice, dropped or reordered.
C1_NoLossNoDuplication == pushed = rendered \o Unrendered

\* C1 witness: three operations were pushed, an operation was pushed after
\* an earlier process_queue had rendered, and all have been rendered.
C1_Witness ==
    /\ Len(pushed) = 3
    /\ rendered = pushed
    /\ c_pc = "idle"
    /\ render_queue = <<>>
    /\ \E k \in 1..3 : pushed[k].type = MESSAGE
    /\ \E k \in 1..3 : pushed[k].type = PRESENCE

\* the lines of the messages buffer of the given kind
RECURSIVE CountKind(_, _)
CountKind(buf, kind) ==
    IF buf = <<>> THEN 0
    ELSE (IF Head(buf)[1] = kind THEN 1 ELSE 0) + CountKind(Tail(buf), kind)

\* the scenario of C2: the connected hook found r1 and r2 with empty
\* backlogs and made r1 current, two messages of one speaker arrived for r1,
\* and every queued operation has been rendered
C2_Scenario ==
    /\ o_pc = "run"
    /\ c_pc = "idle"
    /\ render_queue = <<>>
    /\ rendered = pushed
    /\ current_room_id = "r1"
    /\ \A r \in RoomIds : backlog[r] = <<>>
    /\ messages["r2"] = <<>>
    /\ Len(messages["r1"]) = 2
    /\ messages["r1"][1].speaker_id = messages["r1"][2].speaker_id

\* C2: in that scenario, for every placement of the process_queue calls, the
\* messages buffer holds one header line followed by two body lines, each
\* message shown once (after the first line, which _render_messages sets).
C2_OneHeaderTwoBodies ==
    C2_Scenario =>
        /\ CountKind(messages_buffer, "header") = 1
        /\ CountKind(messages_buffer, "body") = 2
        /\ Len(messages_buffer) = 4
        /\ messages_buffer[2][1] = "header"

\* new is old, old with one message appended, or old behind a prefix that
\* ends with a boundary entry
Extends(old, new) ==
    \/ new = old
    \/ /\ Len(new) = Len(old) + 1
       /\ SubSeq(new, 1, Len(old)) = old
    \/ /\ Len(new) > Len(old)
       /\ SubSeq(new, Len(new) - Len(old) + 1, Len(new)) = old
       /\ new[Len(new) - Len(old)].type = "dummy"

\* C3: in every step, also when the message hook and get_archives interleave,
\* every room's log keeps all its messages in their order: it only grows by
\* an append at the tail or by a prefix of archives and one boundary entry.
C3_LogOnlyGrows ==
    [][\A r \in DOMAIN messages :
          r \in DOMAIN messages' /\ Extends(messages[r], messages'[r])]_vars

\* C4: when get_archives has stored the new log and the Observer has taken
\* no step since the call began, the log is the archive batch, one boundary
\* message (id -1, type dummy), then the log L as it was at the call, and
\* the request named the room and the id of the first message of L.
C4_ArchivePrepend ==
    (c_pc = "ga_render" /\ c_loc.obs0 = ObserverAt) =>
        LET log == messages[current_room_id]
            n == Len(c_loc.archives)
        IN /\ c_loc.log0 # <<>>
           /\ Len(log) = n + 1 + Len(c_loc.log0)
           /\ SubSeq(log, 1, n) = c_loc.archives
           /\ log[n + 1].id = -1
           /\ log[n + 1].type = "dummy"
           /\ SubSeq(log, n + 2, Len(log)) = c_loc.log0
           /\ request = <<current_room_id, c_loc.log0[1].id>>

\* C4 witness: get_archives has stored a log with a non-empty batch and two
\* known messages, with no step of the Observer since the call
C4_Witness ==
    /\ c_pc = "ga_render"
    /\ c_loc.obs0 = ObserverAt
    /\ c_loc.archives # <<>>
    /\ Len(c_loc.log0) = 2

\* C5: a message event for a room that is not the current room appends the
\* message to that room's log and changes nothing else, and the hook's test
\* then ends the hook without enqueuing: the queue, the current room, the
\* last speaker, the other logs and the views stay as they are, and nothing
\* is pushed for a later process_queue to render.
C5_OtherRoomMessage ==
    [][/\ (/\ o_pc = "run"
           /\ o_pc' = "hook_check"
           /\ o_loc'.op.type = MESSAGE
           /\ o_loc'.room # current_room_id)
          => /\ messages' = [messages EXCEPT ![o_loc'.room] =
                                Append(@, o_loc'.op.params.message)]
             /\ UNCHANGED <<render_queue, pushed, rendered, current_room_id,
                            last_speaker_id, views, shown, session>>
       /\ (/\ o_pc = "hook_check"
           /\ o_pc' # "hook_check"
           /\ o_loc.op.type = MESSAGE
           /\ o_loc.room # current_room_id)
          => /\ o_pc' = "run"
             /\ UNCHANGED <<messages, render_queue, pushed, rendered,
                            current_room_id, last_speaker_id, views, shown,
                            session>>]_vars

\* C5 witness: a message arrived for r2 while r1 was current, the hook has
\* ended, and only the connected operation was ever pushed
C5_Witness ==
    /\ o_pc = "run"
    /\ current_room_id = "r1"
    /\ "r2" \in DOMAIN messages
    /\ messages["r2"] # <<>>
    /\ Len(pushed) = 1
    /\ rendered = pushed
    /\ c_pc = "idle"

\* the message lines of the buffer: headers, bodies and delimiters
IsMessageLine(line) == line[1] \in {"header", "body", "delimiter"}

MessageLines(buf) == SelectSeq(buf, IsMessageLine)

\* the lines the header rule of C6 gives for entries i.. of a sequence of
\* shown messages
RECURSIVE ExpectedLines(_, _)
ExpectedLines(seq, i) ==
    IF i > Len(seq) THEN <<>>
    ELSE (IF seq[i].type = "dummy" THEN <<ARCHIVES_DELIMITER>>
          ELSE (IF \/ i = 1
                   \/ seq[i - 1].type = "dummy"
                   \/ seq[i - 1].speaker_id # seq[i].speaker_id
                THEN <<MESSAGE_HEADER(seq[i].nickname, seq[i].timestamp)>>
                ELSE <<>>) \o BodyLines(Split(seq[i].text)))
         \o ExpectedLines(seq, i + 1)

\* C6: the message lines of the buffer are those of the messages shown since
\* the buffer was reset, with a header before a normal message exactly when
\* it is the first shown, follows a boundary message, or follows a message
\* of another speaker.
C6_HeaderRule == MessageLines(messages_buffer) = ExpectedLines(shown, 1)

\* C6 witness: a boundary message was shown between two messages of one
\* speaker, and two messages of one speaker were shown in a row
C6_Witness ==
    /\ \E i \in 2..(Len(shown) - 1) :
          /\ shown[i].type = "dummy"
          /\ shown[i - 1].speaker_id = shown[i + 1].speaker_id
    /\ \E i \in 1..(Len(shown) - 1) :
          /\ shown[i].type # "dummy"
          /\ shown[i + 1].type # "dummy"
          /\ shown[i].speaker_id = shown[i + 1].speaker_id

\* C7: a step of the consumer that changes the current room replays the new
\* room's log from an empty last speaker: the replayed messages are the log,
\* the last speaker is empty when the log is empty, and the first line after
\* the buffer's first line is the header of the log's first message (the
\* delimiter for a boundary message), whoever spoke last before the switch.
C7_SwitchResetsSpeaker ==
    [][(c_pc = "idle" /\ o_pc' = o_pc /\ current_room_id' # current_room_id) =>
          LET log == IF current_room_id' \in DOMAIN messages
                     THEN messages[current_room_id'] ELSE <<>>
          IN /\ shown' = log
             /\ log = <<>> => last_speaker_id' = ""
             /\ log # <<>> =>
                   messages_buffer'[2] =
                      IF log[1].type = "dummy" THEN ARCHIVES_DELIMITER
                      ELSE MESSAGE_HEADER(log[1].nickname, log[1].timestamp)]_vars

\* C7 witness: select_room has switched to r2, whose log is not empty, and
\* replayed it with a header first, the last speaker before being its speaker
C7_Witness ==
    /\ c_pc = "rm_offlines"
    /\ c_loc.ret = "idle"
    /\ current_room_id = "r2"
    /\ shown # <<>>
    /\ shown = messages["r2"]
    /\ messages_buffer[2][1] = "header"
    /\ messages["r1"] # <<>>
    /\ messages["r1"][Len(messages["r1"])].speaker_id = shown[1].speaker_id

\* C8: the current room id is empty or names a room of the session that has
\* a log.
C8_CurrentRoomExists ==
    \/ current_room_id = ""
    \/ /\ \E k \in 1..Len(rooms) : rooms[k] = current_room_id
       /\ current_room_id \in DOMAIN messages

\* C9: select_room(id) changes nothing when id is no room or the current
\* room; otherwise it makes id current, re-renders the messages and rooms
\* buffers from the state and goes on to re-render the members buffer.
C9_SelectRoomFrame ==
    [][\A id \in SelectableIds :
          (c_pc = "idle" /\ SelectRoom(id)) =>
             IF (\A k \in 1..Len(rooms) : rooms[k] # id) \/ id = current_room_id
             THEN UNCHANGED <<current_room_id, last_speaker_id, messages,
                              render_queue, views>>
             ELSE /\ current_room_id' = id
                  /\ id \in DOMAIN messages
                  /\ messages_buffer' =
                        <<GET_ARCHIVES_MESSAGE>> \o ExpectedLines(messages[id], 1)
                  /\ rooms_buffer' = _render_rooms(id)
                  /\ c_pc' = "rm_offlines"
                  /\ c_loc'.mroom = id]_vars

\* a line of the members buffer for a present, an absent member
IsPresentLine(line) == Len(line) = 3 /\ line[3] = " +"

IsAbsentLine(line) == Len(line) = 3 /\ line[3] = " -"

\* C10: in the members buffer no absent member is listed before a present
\* one, and the statusline's present count is at most its total count.
C10_PresencePartition ==
    /\ \A i, j \in 1..Len(members_buffer) :
          (i < j /\ IsAbsentLine(members_buffer[i]))
             => ~IsPresentLine(members_buffer[j])
    /\ members_status # <<>> => members_status[2] <= members_status[3]

\* C10 witness: after a rendered join or leave, the members buffer lists a
\* present member and, after it, an absent one
C10_Witness ==
    /\ \E k \in 1..Len(rendered) : rendered[k].type = PRESENCE
    /\ c_pc = "idle"
    /\ \E i, j \in 1..Len(members_buffer) :
          /\ i < j
          /\ IsPresentLine(members_buffer[i])
          /\ IsAbsentLine(members_buffer[j])

\* whether the consumer is inside process_queue with the lock held and an
\* operation still to render, or in the middle of rendering one
Rendering ==
    /\ queue_lock = "consumer"
    /\ \/ c_pc = "pq_loop" /\ c_loc.i <= Len(render_queue)
       \/ c_pc = "rm_offlines" /\ c_loc.ret = "pq_loop"

\* C11: a push_operation of the Observer never has to wait for a render: the
\* Observer is never at a push_operation, unable to take the lock, while the
\* consumer renders a queued operation.
C11_PushNeverWaits ==
    (o_pc \in {"ch_push", "hook_push"} /\ queue_lock # "free") => ~Rendering

\* C12: a message event for a room that has no log is dropped: the logs, the
\* queue and the cursor state stay as they are and the Observer goes on
\* with the pump.
C12_UnknownRoomDropped ==
    [][\A room \in EventRooms, speaker \in SpeakerIds, text \in Texts :
          (room \notin DOMAIN messages /\ MessageEvent(room, speaker, text)) =>
             /\ UNCHANGED <<messages, render_queue, pushed, current_room_id,
                            last_speaker_id>>
             /\ o_pc' = "run"]_vars

\* C13: when the pump has failed with a session-level error, the Observer
\* sends one notification carrying that error and ends; when the pump
\* returns normally it ends with no notification; and once the Observer has
\* ended it takes no further step: no pump call, no hook, no notification.
C13_FailureNotifiedOnce ==
    [][/\ (o_pc = "except" /\ o_pc' # "except") =>
             /\ observer_commands' =
                   Append(observer_commands, <<"echoerr", o_loc.err>>)
             /\ o_pc' = "failed"
       /\ (o_pc # "done" /\ o_pc' = "done") =>
             observer_commands' = observer_commands
       /\ o_pc \in Terminal =>
             UNCHANGED <<o_pc, o_loc, observer_commands, pushed, online>>]_vars

\* C13 witness: the pump failed after the connected event and the Observer
\* has ended, the error notified
C13_Witness ==
    /\ o_pc = "failed"
    /\ current_room_id # ""
    /\ observer_commands # <<>>
    /\ observer_commands[Len(observer_commands)] = <<"echoerr", "e1">>

\* C14: get_archives called while the current room's log is empty is a
\* silent no-op: no request is sent, no error is raised, and the logs, the
\* cursor state and the views stay as they are.
C14_EmptyLogSilent ==
    [][(/\ c_pc = "idle"
        /\ current_room_id \in DOMAIN messages
        /\ messages[current_room_id] = <<>>
        /\ GetArchivesRaise)
       => /\ c_pc' = "idle"
          /\ c_loc'.err = ""
          /\ UNCHANGED <<request, messages, current_room_id, last_speaker_id,
                         views>>]_vars

HookPcs == {"ch_room", "ch_backlog", "ch_current", "ch_push", "ch_vim",
            "hook_check", "hook_push"}

\* C16: every step of the connected, message, join and leave hooks only
\* changes the room and message state and enqueues at most one operation:
\* none issues a vim command or writes to a view.
C16_HooksNoHostCommands ==
    [][(o_pc \in HookPcs /\ <<o_pc, o_loc>>' # <<o_pc, o_loc>>) =>
          /\ observer_commands' = observer_commands
          /\ UNCHANGED views
          /\ Len(pushed') <= Len(pushed) + 1]_vars

\* C17: the current room id and the last speaker id are written by the
\* consumer only: every step of the Observer (the pump and every hook)
\* leaves both unchanged.
C17_CursorOwnedByConsumer ==
    [][<<o_pc, o_loc>>' # <<o_pc, o_loc>> =>
          UNCHANGED <<current_room_id, last_speaker_id>>]_vars

\* C18: whenever process_queue has ended, by a return or by the failure of a
\* render step, the queue lock is free afterwards, so that a later
\* push_operation or process_queue can acquire it: the lock is never held
\* while the consumer is in no entry point.
C18_LockFreeWhenIdle == c_pc = "idle" => queue_lock = "free"

\* whether message is in the log of a room other than room
InOtherLog(message, room) ==
    \E r \in DOMAIN messages \ {room} :
        \E k \in 1..Len(messages[r]) : messages[r][k] = message

\* C19: whenever process_queue renders a MESSAGE operation, its message
\* belongs to the room that is current at that moment: it is not a message
\* of another room's log.
C19_MessageOfCurrentRoom ==
    [][(/\ c_pc = "pq_loop"
        /\ c_loc.i <= Len(render_queue)
        /\ render_queue[c_loc.i].type = MESSAGE
        /\ rendered' # rendered)
       => ~InOtherLog(render_queue[c_loc.i].params.message, current_room_id)]_vars

\* how many lines of the members buffer buf name member
Listed(buf, member) ==
    Cardinality({k \in 1..Len(buf) : Len(buf[k]) = 3 /\ buf[k][1] = member})

\* C20: every member list that _render_members completes lists each member
\* of the rendered room exactly once, also when a presence flag flips while
\* the render is in progress.
C20_EachMemberOnce ==
    [][(c_pc = "rm_offlines" /\ c_pc' # "rm_offlines") =>
          \A k \in 1..Len(MemberOrder(c_loc.mroom)) :
              Listed(members_buffer', MemberOrder(c_loc.mroom)[k]) = 1]_vars

====
